---- MODULE Spec2Model ----
(***************************************************************************)
(* create-syncano-socket (src/index.js): a command-line scaffolder.  One   *)
(* process validates the socket name, prepares the target directory,       *)
(* writes package.json, probes DNS, spawns `yarnpkg add`, patches the      *)
(* descriptor and spawns the delegated initializer.  The model follows the *)
(* process from its first statement to its exit; the two child processes   *)
(* and the DNS resolver are the environment.                               *)
(***************************************************************************)
EXTENDS Integers, Sequences, FiniteSets, TLC

(***************************************************************************)
(* Bounds of the model.                                                    *)
(***************************************************************************)
\* Largest number of entries the target directory holds before the run.
MaxPreExisting == 3

(***************************************************************************)
(* String helpers (JavaScript String.prototype.indexOf / RegExp tests).    *)
(***************************************************************************)
\* file.indexOf(pattern) === 0
StartsWith(file, pattern) ==
    /\ Len(file) >= Len(pattern)
    /\ SubSeq(file, 1, Len(pattern)) = pattern

\* /\.iml$/.test(file)
EndsWithIml(file) ==
    /\ Len(file) >= 4
    /\ SubSeq(file, Len(file) - 3, Len(file)) = ".iml"

\* Array.prototype.includes
Includes(list, x) == \E i \in 1..Len(list) : list[i] = x

(***************************************************************************)
(* Program constants.                                                      *)
(***************************************************************************)
errorLogFilePatterns == <<"npm-debug.log", "yarn-error.log", "yarn-debug.log">>

validFiles ==
    <<".DS_Store", "Thumbs.db", ".git", ".gitignore", ".idea", "README.md",
      "LICENSE", ".hg", ".hgignore", ".hgcheck", ".npmignore", "mkdocs.yml",
      "docs", ".travis.yml", ".gitlab-ci.yml", ".gitattributes">>

\* Variant: the list without node_modules.
knownGeneratedFiles_NoNodeModules == <<"package.json", "yarn.lock">>

knownGeneratedFiles == <<"package.json", "yarn.lock", "node_modules">>

packageName == "@eyedea/syncano"

(***************************************************************************)
(* The environment: the invoking directory, the candidate arguments and    *)
(* the entry names a directory listing can contain, in listing order.      *)
(***************************************************************************)
originalCwd == "/work"

SocketArgs ==
    {"my-socket", "apps/my-socket", "MySocket", "my socket", ".socket",
     "node_modules"}

FileNames ==
    <<".git", "README.md", "docs", "iml", "my-yarn-error.log",
      "node_modules", "npm-debug.log", "package.json", "project.iml",
      "socket.yml", "src", "yarn-debug.log", "yarn-error.log",
      "yarn-error.log.1", "yarn.lock">>

FileNameSet == {FileNames[i] : i \in 1..Len(FileNames)}

\* What the two child processes may leave in the target directory.
InstallerOutputs == {"yarn.lock", "node_modules", "yarn-error.log"}
InitializerOutputs == {"socket.yml", "src"}

\* Exit status of a process that ends on an unhandled promise rejection:
\* 0 with a warning on Node.js before 15, 1 from Node.js 15 on.
UnhandledRejectionStatus == {0, 1}

\* fs.readdirSync: the entries of a directory as a list.
readdirSync(dir) == SelectSeq(FileNames, LAMBDA f : f \in dir)

(***************************************************************************)
(* path.resolve / path.basename / path.resolve(root, '..')                 *)
(***************************************************************************)
resolve(name) == originalCwd \o "/" \o name

RECURSIVE LastSlash(_, _)
LastSlash(p, i) ==
    IF i = 0 THEN 0
    ELSE IF SubSeq(p, i, i) = "/" THEN i
    ELSE LastSlash(p, i - 1)

basename(p) == SubSeq(p, LastSlash(p, Len(p)) + 1, Len(p))

parentOf(p) == SubSeq(p, 1, LastSlash(p, Len(p)) - 1)

(***************************************************************************)
(* validateSocketName (validate-npm-package-name): the rules the package   *)
(* applies to the names of SocketArgs; `validForNewPackages` is the only   *)
(* field of its result the program branches on.                            *)
(***************************************************************************)
LowerCaseChars ==
    {"a", "b", "c", "d", "e", "f", "g", "h", "i", "j", "k", "l", "m", "n",
     "o", "p", "q", "r", "s", "t", "u", "v", "w", "x", "y", "z"}
DigitChars == {"0", "1", "2", "3", "4", "5", "6", "7", "8", "9"}
NameChars == LowerCaseChars \cup DigitChars \cup {"-", ".", "_"}
BlacklistedNames == {"node_modules", "favicon.ico"}

validForNewPackages(name) ==
    /\ Len(name) > 0
    /\ ~StartsWith(name, ".")
    /\ ~StartsWith(name, "_")
    /\ name \notin BlacklistedNames
    /\ \A i \in 1..Len(name) : SubSeq(name, i, i) \in NameChars

(***************************************************************************)
(* State.                                                                  *)
(***************************************************************************)
VARIABLES
    args,         \* process.argv.slice(2)
    pc,           \* "start", "dns", "install", "init" or "exit"
    exitStatus,   \* exit status of the process, -1 while it runs
    cwd,          \* process.cwd()
    dirExists,    \* the target directory exists
    files,        \* the entries of the target directory
    descriptor,   \* the parsed content of <target>/package.json
    isOnline,     \* value checkIfOnline resolved to: "pending", "online", "offline"
    installer,    \* the `yarnpkg add` child process
    initializer,  \* the `node -e` child process
    reason,       \* the rejection the catch handler received
    patchError,   \* the failure setCaretRangeForRuntimeDeps printed
    safe,         \* result of isSafeToCreateProjectIn
    conflicts,    \* the conflict list isSafeToCreateProjectIn printed
    ops,          \* the process's own filesystem and chdir/spawn calls, in order
    files0,       \* history: the entries before the run
    dirExisted0,  \* history: the target existed before the run
    afterSafety,  \* history: the entries when isSafeToCreateProjectIn returned
    dnsErr        \* history: outcome of dns.lookup: "pending", "ok", "fail"

vars ==
    <<args, pc, exitStatus, cwd, dirExists, files, descriptor, isOnline,
      installer, initializer, reason, patchError, safe, conflicts, ops,
      files0, dirExisted0, afterSafety, dnsErr>>

fsVars == <<cwd, dirExists, files, descriptor, ops>>
checkVars == <<safe, conflicts, afterSafety>>
chainVars == <<isOnline, installer, initializer, reason, patchError, dnsErr>>
inputVars == <<args, files0, dirExisted0>>

undefined == "<undefined>"

socketDirectory == IF Len(args) > 0 THEN args[1] ELSE undefined
root == resolve(socketDirectory)
socketName == basename(root)

NoChild == [spawned |-> 0, alive |-> FALSE, argv |-> <<>>, code |-> -1]
NoReason == [kind |-> "none", command |-> <<>>]
NoDescriptor ==
    [name |-> "", version |-> "", private |-> FALSE,
     hasDependencies |-> FALSE, dependencies |-> {}]

Op(kind, arg) == [op |-> kind, arg |-> arg]
OpsOf(list, kind) == [i \in 1..Len(list) |-> Op(kind, list[i])]

Init ==
    /\ args \in {<<>>} \cup {<<a>> : a \in SocketArgs}
    /\ dirExisted0 \in BOOLEAN
    /\ files0 \in {s \in SUBSET FileNameSet : Cardinality(s) <= MaxPreExisting}
    /\ (~dirExisted0 => files0 = {})
    /\ dirExists = dirExisted0
    /\ files = files0
    /\ descriptor = NoDescriptor
    /\ pc = "start"
    /\ exitStatus = -1
    /\ cwd = originalCwd
    /\ isOnline = "pending"
    /\ installer = NoChild
    /\ initializer = NoChild
    /\ reason = NoReason
    /\ patchError = "none"
    /\ safe = "unchecked"
    /\ conflicts = <<>>
    /\ ops = <<>>
    /\ afterSafety = {}
    /\ dnsErr = "pending"

\* process.exit(status)
Exit(status) ==
    /\ pc' = "exit"
    /\ exitStatus' = status

(***************************************************************************)
(* Argument intake, checkSocketName, isSafeToCreateProjectIn, createSocket *)
(***************************************************************************)
\* Variant: the validation result is printed but the process goes on.
checkSocketName_NoExit(name) == TRUE

\* checkSocketName returns (TRUE) or calls process.exit(1) (FALSE).
checkSocketName(name) == validForNewPackages(name)

IsErrorLog(file) ==
    \E i \in 1..Len(errorLogFilePatterns) :
        StartsWith(file, errorLogFilePatterns[i])

\* Variant: the filter of *.iml files is missing.
Conflicts_NoImlFilter(listing) ==
    SelectSeq(
        SelectSeq(listing, LAMBDA file : ~Includes(validFiles, file)),
        LAMBDA file : ~IsErrorLog(file))

\* The three filters of isSafeToCreateProjectIn over the directory listing.
Conflicts(listing) ==
    SelectSeq(
        SelectSeq(
            SelectSeq(listing, LAMBDA file : ~Includes(validFiles, file)),
            LAMBDA file : ~EndsWithIml(file)),
        LAMBDA file : ~IsErrorLog(file))

\* Variant: only files named exactly like a pattern are removed.
Remnants_ExactName(listing) ==
    SelectSeq(listing, LAMBDA file : Includes(errorLogFilePatterns, file))

\* The remnant files isSafeToCreateProjectIn removes, in listing order.
Remnants(listing) == SelectSeq(listing, IsErrorLog)

\* The fixed record createSocket writes.
NewDescriptor(name) ==
    [name |-> name, version |-> "0.1.0", private |-> TRUE,
     hasDependencies |-> FALSE, dependencies |-> {}]

\* Lines 25-35: no argument.
ExitUsage ==
    /\ pc = "start"
    /\ socketDirectory = undefined
    /\ Exit(1)
    /\ UNCHANGED <<fsVars, checkVars, chainVars, inputVars>>

\* createSocket, checkSocketName fails (lines 39-43, 78-91).
ExitInvalidName ==
    /\ pc = "start"
    /\ socketDirectory # undefined
    /\ ~checkSocketName(socketName)
    /\ Exit(1)
    /\ UNCHANGED <<fsVars, checkVars, chainVars, inputVars>>

\* fs.ensureDirSync(name): the calls it makes on the filesystem.
ensureDirOps == IF dirExists THEN <<>> ELSE <<Op("mkdir", root)>>

\* createSocket, isSafeToCreateProjectIn returns false (lines 44-48, 114-137).
ExitUnsafe ==
    /\ pc = "start"
    /\ socketDirectory # undefined
    /\ checkSocketName(socketName)
    /\ Len(Conflicts(readdirSync(files))) > 0
    /\ dirExists' = TRUE
    /\ ops' = ops \o ensureDirOps
    /\ conflicts' = Conflicts(readdirSync(files))
    /\ safe' = "unsafe"
    /\ Exit(1)
    /\ UNCHANGED <<cwd, files, descriptor, afterSafety, chainVars, inputVars>>

\* createSocket to its end, run() up to the dns.lookup call (lines 39-68,
\* 139-149, 239-245, 152-154).
CreateSocket ==
    /\ pc = "start"
    /\ socketDirectory # undefined
    /\ checkSocketName(socketName)
    /\ Len(Conflicts(readdirSync(files))) = 0
    /\ LET removed == Remnants(readdirSync(files))
           kept == files \ {removed[i] : i \in 1..Len(removed)}
       IN  /\ dirExists' = TRUE
           /\ conflicts' = <<>>
           /\ safe' = "safe"
           /\ afterSafety' = kept
           /\ files' = kept \cup {"package.json"}
           /\ descriptor' = NewDescriptor(socketName)
           /\ cwd' = root
           /\ ops' = ops \o ensureDirOps \o OpsOf(removed, "rm")
                         \o <<Op("write", "package.json"), Op("chdir", root)>>
    /\ pc' = "dns"
    /\ UNCHANGED <<exitStatus, chainVars, inputVars>>

(***************************************************************************)
(* The promise chain of run(): checkIfOnline, install,                     *)
(* setCaretRangeForRuntimeDeps, executeNodeScript and the catch handler.   *)
(***************************************************************************)
\* Exit codes a child process may close with.
ChildExitCodes == {0, 1, 2}

allDependencies == <<packageName>>

\* The argument list install() builds.
installArgs(online) ==
    <<"add", "--exact">>
        \o (IF ~online THEN <<"--offline">> ELSE <<>>)
        \o allDependencies
        \o <<"--cwd", root>>

\* Variant: install() resolves whatever the exit code.
installResolves_Always(code) == TRUE

\* The close handlers of install() and executeNodeScript(): resolve or reject.
installResolves(code) == ~(code # 0)
executeNodeScriptResolves(code) == ~(code # 0)

Spawned(child, argv) ==
    [spawned |-> child.spawned + 1, alive |-> TRUE, argv |-> argv, code |-> -1]
Closed(child, code) == [child EXCEPT !.alive = FALSE, !.code = code]

\* dns.lookup calls back without an error: checkIfOnline resolves true and
\* the next two `then` callbacks run, up to spawn() in install().
DnsLookupOk ==
    /\ pc = "dns"
    /\ dnsErr' = "ok"
    /\ isOnline' = "online"
    /\ installer' = Spawned(installer, installArgs(TRUE))
    /\ ops' = ops \o <<Op("spawn", "yarnpkg")>>
    /\ pc' = "install"
    /\ UNCHANGED <<exitStatus, cwd, dirExists, files, descriptor, initializer,
                   reason, patchError, checkVars, inputVars>>

\* dns.lookup calls back with an error: the callback evaluates getProxy(),
\* which no statement of the program defines, so it throws a ReferenceError
\* out of the callback; the uncaught exception ends the process (status 1)
\* with the promise of checkIfOnline still pending.
DnsLookupFail ==
    /\ pc = "dns"
    /\ dnsErr' = "fail"
    /\ Exit(1)
    /\ UNCHANGED <<fsVars, isOnline, installer, initializer, reason,
                   patchError, checkVars, inputVars>>

\* The installer child writes into the target directory.
InstallerWork ==
    /\ pc = "install"
    /\ installer.alive
    /\ \/ /\ \E f \in InstallerOutputs \ files : files' = files \cup {f}
          /\ UNCHANGED descriptor
       \/ /\ "package.json" \in files
          /\ \E deps \in {{}, {packageName}} :
                /\ descriptor' = [descriptor EXCEPT !.hasDependencies = TRUE,
                                                    !.dependencies = deps]
                /\ descriptor' # descriptor
          /\ UNCHANGED files
    /\ UNCHANGED <<pc, exitStatus, cwd, dirExists, ops, checkVars, chainVars,
                   inputVars>>

\* Variant: the catch handler removes every entry of the target.
GeneratedIn_All(listing) == listing

\* The entries the catch handler removes, in listing order (lines 286-296).
GeneratedIn(listing) ==
    SelectSeq(listing, LAMBDA file : Includes(knownGeneratedFiles, file))

\* The catch handler of run() (lines 274-310) for rejection r.  With no
\* entry left, the message of line 301 reads `appName`, which no statement
\* defines: the ReferenceError leaves the handler before process.chdir and
\* fs.removeSync(root); the rejection is unhandled and the process ends
\* without reaching process.exit(1).
CatchHandler(r) ==
    LET removed == GeneratedIn(readdirSync(files))
        remainingFiles == files \ {removed[i] : i \in 1..Len(removed)}
    IN  /\ reason' = r
        /\ files' = remainingFiles
        /\ descriptor' = IF "package.json" \in remainingFiles
                         THEN descriptor ELSE NoDescriptor
        /\ ops' = ops \o OpsOf(removed, "rm")
        /\ pc' = "exit"
        /\ IF remainingFiles = {}
           THEN exitStatus' \in UnhandledRejectionStatus
           ELSE exitStatus' = 1
        /\ UNCHANGED <<cwd, dirExists>>

\* install(): the child closes and the promise rejects with the command line.
InstallerCloseRejects ==
    /\ pc = "install"
    /\ installer.alive
    /\ \E code \in ChildExitCodes :
          /\ ~installResolves(code)
          /\ installer' = Closed(installer, code)
          /\ CatchHandler([kind |-> "command",
                           command |-> <<"yarnpkg">> \o installer.argv])
    /\ UNCHANGED <<isOnline, initializer, patchError, dnsErr, checkVars,
                   inputVars>>

\* setCaretRangeForRuntimeDeps: the failure it ends the process with.
setCaretRangeForRuntimeDeps(packageJson) ==
    IF ~packageJson.hasDependencies THEN "MissingDependencies"
    ELSE IF packageName \notin packageJson.dependencies THEN "DependencyNotFound"
    ELSE "none"

\* install() resolves; setCaretRangeForRuntimeDeps calls process.exit(1).
InstallerClosePatchExits ==
    /\ pc = "install"
    /\ installer.alive
    /\ \E code \in ChildExitCodes :
          /\ installResolves(code)
          /\ installer' = Closed(installer, code)
    /\ setCaretRangeForRuntimeDeps(descriptor) # "none"
    /\ patchError' = setCaretRangeForRuntimeDeps(descriptor)
    /\ Exit(1)
    /\ UNCHANGED <<fsVars, isOnline, initializer, reason, dnsErr, checkVars,
                   inputVars>>

\* install() resolves; the descriptor is rewritten and the initializer spawned.
InstallerCloseSpawnsInit ==
    /\ pc = "install"
    /\ installer.alive
    /\ \E code \in ChildExitCodes :
          /\ installResolves(code)
          /\ installer' = Closed(installer, code)
    /\ setCaretRangeForRuntimeDeps(descriptor) = "none"
    /\ initializer' = Spawned(initializer, <<"-e", "init", "--", root, socketName,
                                             originalCwd>>)
    /\ ops' = ops \o <<Op("write", "package.json"), Op("spawn", "node")>>
    /\ pc' = "init"
    /\ UNCHANGED <<exitStatus, cwd, dirExists, files, descriptor, isOnline,
                   reason, patchError, dnsErr, checkVars, inputVars>>

\* The initializer child writes into the target directory.
InitializerWork ==
    /\ pc = "init"
    /\ initializer.alive
    /\ \E f \in InitializerOutputs \ files : files' = files \cup {f}
    /\ UNCHANGED <<pc, exitStatus, cwd, dirExists, descriptor, ops, checkVars,
                   chainVars, inputVars>>

\* executeNodeScript resolves: the chain is settled and the process ends.
InitializerCloseResolves ==
    /\ pc = "init"
    /\ initializer.alive
    /\ \E code \in ChildExitCodes :
          /\ executeNodeScriptResolves(code)
          /\ initializer' = Closed(initializer, code)
    /\ Exit(0)
    /\ UNCHANGED <<fsVars, isOnline, installer, reason, patchError, dnsErr,
                   checkVars, inputVars>>

\* executeNodeScript rejects with `node ${args.join(' ')}`, args = [].
InitializerCloseRejects ==
    /\ pc = "init"
    /\ initializer.alive
    /\ \E code \in ChildExitCodes :
          /\ ~executeNodeScriptResolves(code)
          /\ initializer' = Closed(initializer, code)
          /\ CatchHandler([kind |-> "command", command |-> <<"node">>])
    /\ UNCHANGED <<isOnline, installer, patchError, dnsErr, checkVars,
                   inputVars>>

Next ==
    \/ ExitUsage
    \/ ExitInvalidName
    \/ ExitUnsafe
    \/ CreateSocket
    \/ DnsLookupOk
    \/ DnsLookupFail
    \/ InstallerWork
    \/ InstallerCloseRejects
    \/ InstallerClosePatchExits
    \/ InstallerCloseSpawnsInit
    \/ InitializerWork
    \/ InitializerCloseResolves
    \/ InitializerCloseRejects

Spec == Init /\ [][Next]_vars

(***************************************************************************)
(* Properties.                                                             *)
(***************************************************************************)
Range(list) == {list[i] : i \in 1..Len(list)}

\* The three artifacts the claims name.
Generated == {"package.json", "yarn.lock", "node_modules"}

\* The process's own calls of one kind, as the set of their arguments.
ArgsOf(kind) == {ops[i].arg : i \in {j \in 1..Len(ops) : ops[j].op = kind}}

\* The process changed nothing on the filesystem and spawned nothing.
NothingMutated ==
    /\ ops = <<>>
    /\ dirExists = dirExisted0
    /\ files = files0
    /\ descriptor = NoDescriptor
    /\ cwd = originalCwd
    /\ installer.spawned = 0
    /\ initializer.spawned = 0

InstallerFailed == installer.code \notin {-1, 0}
InitializerFailed == initializer.code \notin {-1, 0}
CleanupRan == reason.kind # "none"

\* C1: when the installer closes with a non-zero code, the chain rejects
\* with the installer's command line, the initializer is never spawned, the
\* three generated artifacts are gone from the target and the process ends
\* with exit status 1, whatever the target held before the run.
C1_InstallFailureExitsOne ==
    (pc = "exit" /\ InstallerFailed) =>
        /\ reason = [kind |-> "command",
                     command |-> <<"yarnpkg">> \o installer.argv]
        /\ initializer.spawned = 0
        /\ files \cap Generated = {}
        /\ exitStatus = 1

\* C2: after Failure Cleanup, a target left without entries has been
\* removed, with the working directory moved to its parent before the
\* removal; a target with entries left still exists.
C2_EmptyTargetRemoved ==
    (pc = "exit" /\ CleanupRan) =>
        IF files = {}
        THEN /\ ~dirExists
             /\ cwd = parentOf(root)
             /\ \E i, j \in 1..Len(ops) :
                    /\ i < j
                    /\ ops[i] = Op("chdir", parentOf(root))
                    /\ ops[j] = Op("rmdir", root)
        ELSE dirExists

\* C3: whatever dns.lookup reports, checkIfOnline resolves to a boolean and
\* the installer is spawned, with --offline exactly when the lookup failed.
C3_ProbeNeverFatal ==
    (dnsErr # "pending") =>
        /\ isOnline \in {"online", "offline"}
        /\ installer.spawned = 1
        /\ Includes(installer.argv, "--offline") <=> (isOnline = "offline")
        /\ (dnsErr = "fail") => Includes(installer.argv, "--offline")

\* C4: a name that is not valid for new packages ends the process with exit
\* status 1 before any filesystem write, chdir or spawn.
C4_InvalidNameNoWrites ==
    (pc # "start" /\ socketDirectory # undefined
        /\ ~validForNewPackages(socketName)) =>
        /\ pc = "exit"
        /\ exitStatus = 1
        /\ safe = "unchecked"
        /\ NothingMutated

C4_Witness ==
    /\ pc = "exit"
    /\ exitStatus = 1
    /\ socketDirectory = "MySocket"
    /\ ~dirExisted0

\* An entry the safety check exempts: allow-listed, *.iml, or a stale log.
ExemptEntry(file) ==
    \/ file \in Range(validFiles)
    \/ EndsWithIml(file)
    \/ \E pattern \in Range(errorLogFilePatterns) : StartsWith(file, pattern)

\* C5: a target with a non-exempt entry is reported unsafe, the conflict
\* list is exactly its non-exempt entries, and the process ends with exit
\* status 1 having mutated nothing; a target with only exempt entries is
\* reported safe and the run goes on to write the descriptor.
C5_UnsafeDirectory ==
    LET nonExempt == {f \in files0 : ~ExemptEntry(f)}
    IN  /\ (pc # "start" /\ nonExempt # {}) =>
                /\ pc = "exit"
                /\ exitStatus = 1
                /\ NothingMutated
        /\ (pc # "start" /\ socketDirectory # undefined
                /\ validForNewPackages(socketName)) =>
                IF nonExempt # {}
                THEN /\ safe = "unsafe"
                     /\ Range(conflicts) = nonExempt
                     /\ Len(conflicts) = Cardinality(nonExempt)
                ELSE /\ safe = "safe"
                     /\ conflicts = <<>>
                     /\ "package.json" \in ArgsOf("write")

C5_Witness ==
    /\ pc = "exit"
    /\ safe = "unsafe"
    /\ files0 = {"project.iml", "src", "yarn-error.log"}
    /\ conflicts = <<"src">>

\* C6: when the safety check returns safe, every entry that starts with one
\* of the three stale-log prefixes has been deleted, before the descriptor
\* is written, and every other entry is untouched; a run reported unsafe
\* deletes nothing.
C6_StaleLogsRemoved ==
    /\ (safe = "safe") =>
            /\ afterSafety = {f \in files0 : ~IsErrorLog(f)}
            /\ \A i \in 1..Len(ops) : \A f \in files0 :
                    (ops[i].op = "write" /\ IsErrorLog(f)) =>
                        \E j \in 1..(i - 1) : ops[j] = Op("rm", f)
    /\ (safe = "unsafe") =>
            /\ ArgsOf("rm") = {}
            /\ files = files0

C6_Witness ==
    /\ pc = "dns"
    /\ safe = "safe"
    /\ files0 = {".git", "yarn-error.log.1"}
    /\ files = {".git", "package.json"}

\* C7 as claimed, at the descriptor-patch step: a run that fails in
\* setCaretRangeForRuntimeDeps ends with none of package.json, yarn.lock,
\* node_modules in the target.
C7_PatchFailureSwept ==
    (pc = "exit" /\ patchError # "none") => files \cap Generated = {}

\* C7 as amended: Failure Cleanup runs exactly when the installer or the
\* initializer closed with a non-zero code, and then none of package.json,
\* yarn.lock, node_modules is left when the process ends; a failure of the
\* descriptor patch ends the process with status 1 without cleanup, the
\* descriptor still in place; the target is removed only if it is empty.
C7_RejectionSwept ==
    /\ (pc = "exit") => (CleanupRan <=> (InstallerFailed \/ InitializerFailed))
    /\ (pc = "exit" /\ CleanupRan) => files \cap Generated = {}
    /\ (pc = "exit" /\ patchError # "none") =>
            /\ ~CleanupRan
            /\ exitStatus = 1
            /\ "package.json" \in files
            /\ ArgsOf("rm") \cap Generated = {}
    /\ ~dirExists => files = {}

C7_Witness ==
    /\ pc = "exit"
    /\ InitializerFailed
    /\ {"package.json", "yarn.lock", "node_modules"} \subseteq ArgsOf("rm")
    /\ files = {".git", "socket.yml"}

\* C8: the exit status of a terminated run is 0 exactly when the installer
\* closed with 0, the descriptor patch found the dependency and the
\* initializer closed with 0; every other terminated run has status 1.
C8_ExitStatus ==
    (pc = "exit") =>
        /\ exitStatus \in {0, 1}
        /\ (exitStatus = 0) <=>
                (installer.code = 0 /\ patchError = "none" /\ initializer.code = 0)

\* C9: at most one installer and one initializer are spawned, never alive
\* together; the initializer is spawned only after the installer closed with
\* 0 and the patcher found `dependencies` and the package key; after a
\* non-zero installer close or a patcher failure (exit status 1) no
\* initializer is spawned.
C9_SubprocessOrdering ==
    /\ installer.spawned <= 1
    /\ initializer.spawned <= 1
    /\ ~(installer.alive /\ initializer.alive)
    /\ (initializer.spawned > 0) =>
            /\ installer.spawned = 1
            /\ ~installer.alive
            /\ installer.code = 0
            /\ patchError = "none"
    /\ initializer.alive =>
            /\ descriptor.hasDependencies
            /\ packageName \in descriptor.dependencies
    /\ (InstallerFailed \/ patchError # "none") => initializer.spawned = 0
    /\ (patchError # "none") => (pc = "exit" /\ exitStatus = 1)

C9_Witness ==
    /\ initializer.alive
    /\ installer.code = 0
    /\ ops[Len(ops)] = Op("spawn", "node")

\* C10: the process's own deletions and writes never touch an entry that
\* was in the target before the run, stale logs excepted: every other
\* pre-existing entry is still there, package.json is never written over a
\* pre-existing one, and the target is removed only when empty.
C10_PreExistingPreserved ==
    /\ \A f \in (ArgsOf("rm") \cup ArgsOf("write")) \cap files0 : IsErrorLog(f)
    /\ \A f \in files0 : ~IsErrorLog(f) => f \in files
    /\ ("package.json" \in ArgsOf("write")) => "package.json" \notin files0
    /\ CleanupRan => files0 \cap Generated = {}
    /\ dirExisted0 => dirExists
    /\ ~dirExists => files = {}

C10_Witness ==
    /\ pc = "exit"
    /\ CleanupRan
    /\ files0 = {".git", "README.md", "yarn-error.log"}
    /\ "package.json" \in ArgsOf("rm")

====
